---- MODULE Spec2Model ----
(***************************************************************************)
(* Lowlife_Core duel: the action resolver (bot/duel/actions.py,            *)
(* bot/duel/battlefield.py, bot/duel/state.py) and the button handlers     *)
(* that drive a session (bot/duel/views.py, bot/duel/ai.py,                *)
(* bot/duel/registry.py).                                                  *)
(*                                                                         *)
(* The session is one record, ds.  Every resolver function is an operator  *)
(* from a session to the set of outcomes [s |-> session, text |-> result   *)
(* line] it can produce; random draws are the choices inside that set.     *)
(***************************************************************************)
EXTENDS Integers, Sequences, FiniteSets, TLC

VARIABLES
    ds,          \* the DuelState of the channel
    reply,       \* the result line / ephemeral reply of the last call
    calls,       \* resolver calls / button presses handled so far
    parked,      \* handlers suspended after the AI's HUD update
    registered,  \* _DUEL_BY_CHANNEL still holds the session
    opening      \* duel_ai is still to give the AI its opening turn

vars == <<ds, reply, calls, parked, registered, opening>>

(* ----------------------------- bounds -------------------------------- *)
\* number of resolver calls / accepted handler runs explored per behaviour
MaxCalls == 2
\* number of button presses explored per behaviour
MaxPresses == 2
\* handlers that may be suspended at the same time
MaxParked == 1
\* sample of a nearly beaten fighter's hit points
LowHP == 6
\* sample of a nearly exhausted fighter's stamina
LowStamina == 6
\* sample of a kit too heavy to sprint with
HeavyWeight == 30

(* ------------------------- state.py constants ------------------------ *)
CLOSE == 0
NEAR == 1
MID == 2
FAR == 3
OUT == 4
Gates == CLOSE..OUT

COVER_NONE == 0
COVER_PARTIAL == 1
COVER_FULL == 2

STAMINA_BASE == 85
STAMINA_MIN_FOR_SPRINT == 35
STAMINA_REGEN_PER_TURN == 5
CHOKE_STAM_DRAIN == 7
CONCEALMENT_TICK == 20
DefaultWeight == 15
SprintMaxWeight == 25
FullHP == 100

\* fighter indices: 1 is p1 / a, 2 is p2 / b; a fighter's user_id is its index
F == {1, 2}
None == 0

foe(idx) == IF idx = 1 THEN 2 ELSE 1

clamp(v, lo, hi) == IF v < lo THEN lo ELSE IF v > hi THEN hi ELSE v

\* roll((lo, hi)) = random.randint(lo, hi): the values explored are the two
\* ends and the middle of the range
roll(lo, hi) == {lo, (lo + hi) \div 2, hi}

\* a result line: its kind and the two numbers it prints
Text(kind, n, m) == [kind |-> kind, n |-> n, m |-> m]
Line(kind) == Text(kind, 0, 0)
Out(s, text) == [s |-> s, text |-> text]

(* --------------------------- actions.py helpers ---------------------- *)
\* _log: ds.log.append(text)
log_append(s, kind) == [s EXCEPT !.log = Append(@, kind)]

apply_damage_nofloor(s, f, dmg) == [s EXCEPT !.hp[f] = @ - dmg]
\* _apply_damage: f.hp = max(0, f.hp - dmg)
apply_damage(s, f, dmg) ==
    [s EXCEPT !.hp[f] = IF @ - dmg < 0 THEN 0 ELSE @ - dmg]

spend(s, f, cost) == [s EXCEPT !.stamina[f] = clamp(@ - cost, 0, 100)]

\* _consume_defense_text: both one-shot flags of the defender are cleared
consume_defense(s, f) ==
    [s EXCEPT !.status_block[f] = FALSE, !.status_dodge[f] = FALSE]

(* --------------------------- battlefield.py -------------------------- *)
gate_step_unclamped(g, delta) == g + delta
gate_step_wrap(g, delta) == (g + delta) % 5
gate_step(g, delta) == clamp(g + delta, CLOSE, OUT)

end_turn_recover(s, f) ==
    [s EXCEPT !.stamina[f] = clamp(@ + STAMINA_REGEN_PER_TURN, 0, 100),
              !.status_block[f] = FALSE,
              !.status_dodge[f] = FALSE]

sprint_steps(s, idx, sprint) ==
    IF sprint /\ s.stamina[idx] >= STAMINA_MIN_FOR_SPRINT
              /\ s.weight[idx] <= SprintMaxWeight
    THEN 2 ELSE 1

act_advance(s, idx, sprint) ==
    LET steps == sprint_steps(s, idx, sprint)
        cost == IF steps = 2 THEN 10 ELSE 6
        s1 == spend(s, idx, cost)
        after == gate_step(s.current_range, 0 - steps)
    IN { Out([s1 EXCEPT !.current_range = after],
             Text("advances", s.current_range, after)) }

act_retreat(s, idx, sprint) ==
    LET steps == sprint_steps(s, idx, sprint)
        cost == IF steps = 2 THEN 10 ELSE 6
        s1 == spend(s, idx, cost)
        after == gate_step(s.current_range, steps)
    IN { Out([s1 EXCEPT !.current_range = after],
             Text("retreats", s.current_range, after)) }

act_take_cover(s, idx, level) ==
    LET lv == clamp(level, COVER_NONE, COVER_FULL)
    IN { Out([s EXCEPT !.cover[idx] = lv,
                       !.concealment[idx] =
                           clamp(@ + CONCEALMENT_TICK \div 2, 0, 100)],
             Text("takes_cover", lv, 0)) }

act_leave_cover(s, idx) ==
    { Out([s EXCEPT !.cover[idx] = COVER_NONE], Line("leaves_cover")) }

(* ------------------------ actions.py: defence ------------------------ *)
act_block(s, idx) ==
    { Out([spend(s, idx, 4) EXCEPT !.status_block[idx] = TRUE,
                                   !.status_dodge[idx] = FALSE],
          Line("block")) }

\* a dodge that leaves the block flag alone
act_dodge_keep_block(s, idx) ==
    { Out([spend(s, idx, 6) EXCEPT !.status_dodge[idx] = TRUE],
          Line("dodge")) }

act_dodge(s, idx) ==
    { Out([spend(s, idx, 6) EXCEPT !.status_dodge[idx] = TRUE,
                                   !.status_block[idx] = FALSE],
          Line("dodge")) }

(* ------------------------ actions.py: attacks ------------------------ *)
\* a block that takes nothing off the damage
blocked_damage_full(dmg) == dmg

\* math.floor(dmg * (1.0 - BLOCK_REDUCTION)), BLOCK_REDUCTION = 0.5
blocked_damage(dmg) == dmg \div 2

act_punch(s, idx) ==
    LET dfn == foe(idx)
        dodged == IF s.status_dodge[dfn]
                  THEN { Out(consume_defense(s, dfn), Line("punch_dodged")) }
                  ELSE {}
        landed == { IF s.status_block[dfn]
                    THEN Out(spend(apply_damage(consume_defense(s, dfn), dfn,
                                                blocked_damage(dmg)), idx, 5),
                             Text("punches_blocked", blocked_damage(dmg), 0))
                    ELSE Out(spend(apply_damage(s, dfn, dmg), idx, 5),
                             Text("punches", dmg, 0))
                    : dmg \in roll(5, 9) }
    IN IF s.current_range # CLOSE
       THEN { Out(s, Line("reject_punch_range")) }
       ELSE dodged \cup landed

\* pick_weapon_for_range of state.py: Fists (4, 7) at Close, Sidearm (6, 10)
\* at every other gate
weapon_dmg(gate) == IF gate = CLOSE THEN roll(4, 7) ELSE roll(6, 10)

\* act_shoot whose dodged shot costs the attacker nothing
act_shoot_free_dodge(s, idx) ==
    LET dfn == foe(idx)
        dodged == IF s.status_dodge[dfn]
                  THEN { Out(consume_defense(s, dfn), Line("shot_dodged")) }
                  ELSE {}
        missed == { Out(spend(s, idx, 7), Line("shot_missed")) }
        hit == { IF s.status_block[dfn]
                 THEN Out(apply_damage(consume_defense(spend(s, idx, 7), dfn),
                                       dfn, blocked_damage(dmg)),
                          Text("hits_blocked", blocked_damage(dmg), 0))
                 ELSE Out(apply_damage(spend(s, idx, 7), dfn, dmg),
                          Text("hits", dmg, 0))
                 : dmg \in weapon_dmg(s.current_range) }
    IN IF s.current_range = OUT
       THEN { Out(s, Line("reject_out_of_range")) }
       ELSE dodged \cup missed \cup hit

act_shoot(s, idx) ==
    LET dfn == foe(idx)
        dodged == IF s.status_dodge[dfn]
                  THEN { Out(spend(consume_defense(s, dfn), idx, 7),
                             Line("shot_dodged")) }
                  ELSE {}
        missed == { Out(spend(s, idx, 7), Line("shot_missed")) }
        hit == { IF s.status_block[dfn]
                 THEN Out(apply_damage(consume_defense(spend(s, idx, 7), dfn),
                                       dfn, blocked_damage(dmg)),
                          Text("hits_blocked", blocked_damage(dmg), 0))
                 ELSE Out(apply_damage(spend(s, idx, 7), dfn, dmg),
                          Text("hits", dmg, 0))
                 : dmg \in weapon_dmg(s.current_range) }
    IN IF s.current_range = OUT
       THEN { Out(s, Line("reject_out_of_range")) }
       ELSE dodged \cup missed \cup hit

act_grenade(s, idx) ==
    LET dfn == foe(idx)
        s1 == spend(s, idx, 10)
        landed(dmg, destroy) ==
            LET s2 == IF destroy THEN [s1 EXCEPT !.cover[dfn] = COVER_NONE]
                      ELSE s1
            IN Out(apply_damage(consume_defense(s2, dfn), dfn, dmg),
                   Text(IF destroy THEN "grenade_hits_cover" ELSE "grenade_hits",
                        dmg, 0))
    IN { Out(s1, Line("grenade_misses")) }
       \cup { landed(dmg, FALSE) : dmg \in roll(14, 22) }
       \cup IF s.cover[dfn] = COVER_PARTIAL
            THEN { landed(dmg, TRUE) : dmg \in roll(14, 22) }
            ELSE {}

(* --------------------- actions.py: grapple / choke ------------------- *)
act_grapple(s, idx) ==
    LET dfn == foe(idx)
        s1 == spend(s, idx, 6)
    IN IF s.current_range # CLOSE
       THEN { Out(s, Line("reject_grapple_range")) }
       ELSE { Out([s1 EXCEPT !.is_choked_by[dfn] = idx],
                  Line("grapple_secured")),
              Out(s1, Line("grapple_fails")) }

\* act_choke without the range test: the lucky choke lands at any gate
act_choke_anywhere(s, idx) ==
    LET dfn == foe(idx)
        linked == ~(s.is_choked_by[dfn] # idx /\ s.choking_target[idx] # dfn)
        applied == { Out(apply_damage(
                            consume_defense(
                              spend([s EXCEPT !.choking_target[idx] = dfn,
                                              !.is_choked_by[dfn] = idx],
                                    idx, CHOKE_STAM_DRAIN),
                              dfn),
                            dfn, dmg),
                         Text("chokes", dmg, 0)) : dmg \in roll(3, 7) }
        rejected == { Out(s, Line("reject_choke")) }
    IN IF linked THEN applied ELSE rejected \cup applied

act_choke(s, idx) ==
    LET dfn == foe(idx)
        linked == ~(s.is_choked_by[dfn] # idx /\ s.choking_target[idx] # dfn)
        applied == { Out(apply_damage(
                            consume_defense(
                              spend([s EXCEPT !.choking_target[idx] = dfn,
                                              !.is_choked_by[dfn] = idx],
                                    idx, CHOKE_STAM_DRAIN),
                              dfn),
                            dfn, dmg),
                         Text("chokes", dmg, 0)) : dmg \in roll(3, 7) }
        rejected == { Out(s, Line("reject_choke")) }
    IN IF linked THEN applied
       ELSE IF s.current_range # CLOSE THEN rejected
       ELSE rejected \cup applied

act_push(s, idx) ==
    LET dfn == foe(idx)
        before == s.current_range
        after == IF before + 1 < OUT THEN before + 1 ELSE OUT
    IN IF s.choking_target[idx] # dfn
       THEN { Out(s, Line("reject_push")) }
       ELSE { Out([s EXCEPT !.choking_target[idx] = None,
                            !.is_choked_by[dfn] = None,
                            !.current_range = after],
                  Text("pushes", before, after)) }

act_gouge(s, idx) ==
    LET atk == foe(idx)
    IN IF s.is_choked_by[idx] # atk
       THEN { Out(s, Line("reject_gouge")) }
       ELSE { Out(apply_damage([s EXCEPT !.is_choked_by[idx] = None,
                                         !.choking_target[atk] = None],
                               atk, dmg),
                  Text("gouges", dmg, 0)) : dmg \in roll(2, 5) }
            \cup { Out(s, Line("gouge_fails")) }

\* attack_once: punch with probability 0.35 at Close, shoot otherwise; the
\* returned line, a rejection included, is appended to the log
attack_once(s, idx) ==
    LET texts == (IF s.current_range = CLOSE THEN act_punch(s, idx) ELSE {})
                 \cup act_shoot(s, idx)
    IN { Out(log_append(r.s, r.text.kind), r.text) : r \in texts }

(* ------------------------------ session ------------------------------ *)
NoPair == <<>>
SEGMENTS == 20

\* a session as duel_start builds it: state.py defaults, the lane ends of
\* init_battlefield, the five filler rows and the initiative line in the log
NewSession(gate, first, ai) ==
    [ hp |-> [f \in F |-> FullHP],
      stamina |-> [f \in F |-> STAMINA_BASE],
      weight |-> [f \in F |-> DefaultWeight],
      cover |-> [f \in F |-> COVER_NONE],
      concealment |-> [f \in F |-> 0],
      status_block |-> [f \in F |-> FALSE],
      status_dodge |-> [f \in F |-> FALSE],
      choking_target |-> [f \in F |-> None],
      is_choked_by |-> [f \in F |-> None],
      current_range |-> gate,
      turn_id |-> first,
      round_no |-> 1,
      active |-> TRUE,
      log |-> <<"fill", "fill", "fill", "fill", "fill", "initiative">>,
      grappling |-> FALSE,
      choking |-> NoPair,
      finisher |-> NoPair,
      unconscious |-> {},
      breath |-> [f \in F |-> 50],
      bloodflow |-> [f \in F |-> 50],
      positioning |-> [f \in F |-> 50],
      grenades_pending |-> [f \in F |-> NoPair],
      pos |-> [f \in F |-> IF f = 1 THEN 2 ELSE SEGMENTS - 3],
      cover_level |-> [f \in F |-> 0],
      is_ai |-> ai ]

(* ------------------- the resolver, called directly ------------------- *)
\* the sessions the resolver is started from: any gate, each fighter fresh
\* or worn down, fighter 1 light or heavy
Worn(s, f) == [s EXCEPT !.hp[f] = LowHP, !.stamina[f] = LowStamina]

InitResolver ==
    /\ \E gate \in Gates, w1 \in BOOLEAN, w2 \in BOOLEAN, heavy \in BOOLEAN :
         LET s0 == NewSession(gate, 0, FALSE)
             s1 == IF w1 THEN Worn(s0, 1) ELSE s0
             s2 == IF w2 THEN Worn(s1, 2) ELSE s1
         IN ds = IF heavy THEN [s2 EXCEPT !.weight[1] = HeavyWeight] ELSE s2
    /\ reply = Line("start")
    /\ calls = 0
    /\ parked = 0
    /\ registered = TRUE
    /\ opening = FALSE

Call(outs) ==
    /\ calls < MaxCalls
    /\ \E r \in outs : ds' = r.s /\ reply' = r.text
    /\ calls' = calls + 1
    /\ UNCHANGED <<parked, registered, opening>>

Advance == \E idx \in F, sprint \in BOOLEAN : Call(act_advance(ds, idx, sprint))
Retreat == \E idx \in F, sprint \in BOOLEAN : Call(act_retreat(ds, idx, sprint))
TakeCover == \E idx \in F, level \in COVER_PARTIAL..COVER_FULL :
                 Call(act_take_cover(ds, idx, level))
LeaveCover == \E idx \in F : Call(act_leave_cover(ds, idx))
Block == \E idx \in F : Call(act_block(ds, idx))
Dodge == \E idx \in F : Call(act_dodge(ds, idx))
Punch == \E idx \in F : Call(act_punch(ds, idx))
Shoot == \E idx \in F : Call(act_shoot(ds, idx))
Grenade == \E idx \in F : Call(act_grenade(ds, idx))
Grapple == \E idx \in F : Call(act_grapple(ds, idx))
Choke == \E idx \in F : Call(act_choke(ds, idx))
Push == \E idx \in F : Call(act_push(ds, idx))
Gouge == \E idx \in F : Call(act_gouge(ds, idx))
AttackOnce == \E idx \in F : Call(attack_once(ds, idx))
Recover == \E idx \in F :
               Call({ Out(end_turn_recover(ds, idx), Line("recover")) })

NextResolver ==
    \/ Advance \/ Retreat \/ TakeCover \/ LeaveCover
    \/ Block \/ Dodge \/ Punch \/ Shoot \/ Grenade
    \/ Grapple \/ Choke \/ Push \/ Gouge
    \/ AttackOnce \/ Recover

SpecResolver == InitResolver /\ [][NextResolver]_vars


(* ------------------- the session object's own methods ---------------- *)
\* DuelState.current() / other(): turn_id 0 is fighter a
current(s) == s.turn_id + 1
other(s) == foe(current(s))

push(s, kind) == log_append(s, kind)

\* DuelState.end_turn(): end-of-turn recovery of the acting fighter, the turn
\* passes to the other fighter, the round counts up when it returns to a
end_turn(s) ==
    LET s1 == end_turn_recover(s, current(s))
    IN [s1 EXCEPT !.turn_id = 1 - @,
                  !.round_no = IF s.turn_id = 1 THEN @ + 1 ELSE @]

down(s, f) == s.hp[f] <= 0 \/ f \in s.unconscious

\* DuelState.winner(): the fighter left standing, None while both stand or
\* both are down
winner(s) ==
    IF down(s, 2) /\ ~down(s, 1) THEN 1
    ELSE IF down(s, 1) /\ ~down(s, 2) THEN 2
    ELSE None

is_draw(s) == s.hp[1] <= 0 /\ s.hp[2] <= 0

can_grapple(s) == s.current_range = CLOSE /\ ~s.grappling
begin_grapple(s, uid) == [s EXCEPT !.grappling = TRUE]

\* DuelState.micro_move(): the lane position, clamped into the lane
micro_move(s, uid, steps) ==
    [s EXCEPT !.pos[uid] = clamp(@ + steps, 0, SEGMENTS - 1)]

(* ------------------- actions.py: pending grenade --------------------- *)
resolve_pending_grenade(s, actor) ==
    LET entry == s.grenades_pending[actor]
    IN IF entry = NoPair THEN s
       ELSE log_append(
              apply_damage([s EXCEPT !.grenades_pending[actor] = NoPair],
                           actor, entry[2]),
              "detonates")

(* ------------------- views.py: finisher and ending ------------------- *)
Prompt == "prompt"
last_line(s) == IF Len(s.log) = 0 THEN "" ELSE s.log[Len(s.log)]
add_prompt(s) == IF last_line(s) # Prompt THEN log_append(s, Prompt) ELSE s

\* maybe_offer_finisher: [s |-> session, view |-> a FinalizeView was returned]
maybe_offer_finisher(s) ==
    LET w == winner(s)
        loser == foe(w)
    IN IF w = None THEN [s |-> s, view |-> FALSE]
       ELSE IF loser \in s.unconscious /\ s.active
       THEN [s |-> add_prompt(IF s.finisher = NoPair
                              THEN [s EXCEPT !.finisher = <<w, loser>>]
                              ELSE s),
             view |-> TRUE]
       ELSE [s |-> s, view |-> FALSE]

\* end_if_finished_or_offer without its draw branch
end_if_finished_no_draw(s) ==
    LET m == maybe_offer_finisher(s)
    IN IF m.view THEN m.s
       ELSE IF winner(m.s) # None
       THEN push([m.s EXCEPT !.finisher = NoPair, !.active = FALSE], "wins")
       ELSE m.s

end_if_finished_or_offer(s) ==
    LET m == maybe_offer_finisher(s)
    IN IF m.view THEN m.s
       ELSE IF is_draw(m.s)
       THEN push([m.s EXCEPT !.finisher = NoPair, !.active = FALSE], "draw")
       ELSE IF winner(m.s) # None
       THEN push([m.s EXCEPT !.finisher = NoPair, !.active = FALSE], "wins")
       ELSE m.s

end_and_update(s) == end_if_finished_or_offer(s)

\* a tightening that drains the victim and never puts them out
tighten_no_knockout(s, b, f) ==
    push([s EXCEPT !.breath[s.choking[2]] = clamp(@ - b, 0, 100),
                   !.bloodflow[s.choking[2]] = clamp(@ - f, 0, 100)],
         "tightens")

\* the tightening shared by ChokeView.btn_squeeze and the AI's choke branch:
\* breath and bloodflow drain, the target passes out at 0, the finisher is
\* armed for the winner
tighten(s, b, f) ==
    LET choker == s.choking[1]
        target == s.choking[2]
        s1 == push([s EXCEPT !.breath[target] = clamp(@ - b, 0, 100),
                             !.bloodflow[target] = clamp(@ - f, 0, 100)],
                   "tightens")
        s2 == [s1 EXCEPT !.unconscious = @ \cup {target}]
        w == winner(s2)
    IN IF s1.breath[target] <= 0 \/ s1.bloodflow[target] <= 0
       THEN IF w # None
            THEN add_prompt([s2 EXCEPT !.finisher = <<w, target>>])
            ELSE s2
       ELSE s1

wrestle(s, me, swing) ==
    { push([apply_damage(s, foe(me), dmg) EXCEPT
               !.positioning[me] =
                   IF improved THEN clamp(@ + swing, 0, 100) ELSE @,
               !.positioning[foe(me)] =
                   IF improved THEN clamp(@ - swing, 0, 100) ELSE @],
           "wrestles")
      : dmg \in roll(1, 2), improved \in BOOLEAN }

break_free(s, me) ==
    { push([s EXCEPT !.grappling = FALSE, !.choking = NoPair], "breaks_free"),
      push([s EXCEPT !.positioning[me] = clamp(@ - 5, 0, 100),
                     !.positioning[foe(me)] = clamp(@ + 5, 0, 100)],
           "break_fails") }

(* --------------------------- ai.py: the AI turn ---------------------- *)
AI == 2

\* compute_attack_numbers / apply_armor_reduction: the damage of an AI hit
ai_hit_damage(s) == weapon_dmg(s.current_range)

ai_step_forward(s) ==
    { push(micro_move(s, AI, step), "ai_advances") : step \in 1..2 }

\* compute_attack_numbers: whether an attack is ready, and with which weapon
Weapons == { "Fists", "Pistol" }

\* fists_too_far: the range gate is not Close
fists_too_far(s) == s.current_range # CLOSE

\* a ranged phase that swings whenever an attack is ready, however far
ai_ranged_swings(s, ready, weapon) ==
    IF ready
    THEN { push(apply_damage(s, foe(AI), dmg),
                IF weapon = "Fists" THEN "ai_swing_hits" ELSE "ai_hits")
           : dmg \in ai_hit_damage(s) }
         \cup { push(s, IF weapon = "Fists" THEN "ai_swing_misses"
                        ELSE "ai_misses") }
    ELSE ai_step_forward(s)

\* the ranged phase for one answer of compute_attack_numbers: Fists out of
\* reach step forward, a ready weapon hits or misses, and with no attack
\* ready the AI falls back to stepping forward
ai_ranged_with(s, ready, weapon) ==
    IF ready /\ weapon = "Fists" /\ fists_too_far(s) THEN ai_step_forward(s)
    ELSE IF ready
    THEN { push(apply_damage(s, foe(AI), dmg),
                IF weapon = "Fists" THEN "ai_swing_hits" ELSE "ai_hits")
           : dmg \in ai_hit_damage(s) }
         \cup { push(s, IF weapon = "Fists" THEN "ai_swing_misses"
                        ELSE "ai_misses") }
    ELSE ai_step_forward(s)

\* the ranged phase: Fists out of reach or no attack ready step forward,
\* otherwise the AI hits or misses
ai_ranged(s) ==
    UNION { ai_ranged_with(s, ready, weapon)
            : ready \in BOOLEAN, weapon \in Weapons }

ai_grapple(s) ==
    wrestle(s, AI, 10)
    \cup { push(apply_damage(s, foe(AI), dmg), "punches") : dmg \in roll(1, 5) }
    \cup break_free(s, AI)

ai_choke(s) ==
    IF s.choking[1] = AI
    THEN { tighten(s, b, f) : b \in roll(8, 12), f \in roll(4, 8) }
    ELSE { push(s, "struggles") }

\* the AI's turn without its end of turn
maybe_ai_keeps_turn(s) ==
    { [s |-> a.s, parked |-> a.parked]
      : a \in IF ~s.active \/ ~(s.is_ai /\ current(s) = AI)
              THEN { [s |-> s, parked |-> FALSE] }
              ELSE { [s |-> push(resolve_pending_grenade(s, AI), "ai_misses"),
                      parked |-> TRUE] } }

\* maybe_ai_take_turn: [s |-> session, parked |-> the caller was suspended in
\* a HUD update before it could go on]
maybe_ai_take_turn(s) ==
    IF ~s.active \/ ~(s.is_ai /\ current(s) = AI)
    THEN { [s |-> s, parked |-> FALSE] }
    ELSE LET m == maybe_offer_finisher(s)
             s1 == resolve_pending_grenade(s, AI)
             acted == IF s1.choking # NoPair THEN ai_choke(s1)
                      ELSE IF s1.grappling THEN ai_grapple(s1)
                      ELSE ai_ranged(s1)
         IN IF m.view THEN { [s |-> m.s, parked |-> TRUE] }
            ELSE { [s |-> end_turn(s2), parked |-> TRUE] : s2 \in acted }

(* ----------------------- views.py: button handlers ------------------- *)
\* what a handler run produces: the session, the reply, whether the handler
\* is left suspended before end_and_update, whether the press was applied
Rejected(s, kind) ==
    { [s |-> s, text |-> Line(kind), parked |-> FALSE, ok |-> FALSE] }
Applied(s, text) == [s |-> s, text |-> text, parked |-> FALSE, ok |-> TRUE]

\* the common tail of a turn-consuming handler: end_turn, the AI's follow-up,
\* end_and_update
finish_turn(acted) ==
    { IF a.parked
      THEN [s |-> a.s, text |-> r.text, parked |-> TRUE, ok |-> TRUE]
      ELSE [s |-> end_and_update(a.s), text |-> r.text, parked |-> FALSE,
            ok |-> TRUE]
      : <<r, a>> \in UNION { { <<r, a>> : a \in maybe_ai_take_turn(end_turn(r.s)) }
                             : r \in acted } }

\* _is_my_turn without the test of the active flag
main_refusal_noactive(s, u) ==
    IF u # current(s) THEN "not_your_turn" ELSE ""

\* DuelMainView._is_my_turn
main_refusal(s, u) ==
    IF ~s.active THEN "ended"
    ELSE IF u # current(s) THEN "not_your_turn"
    ELSE ""

\* GrappleView._is_my_turn
grapple_refusal(s, u) ==
    IF main_refusal(s, u) # "" THEN main_refusal(s, u)
    ELSE IF ~s.grappling \/ s.choking # NoPair THEN "grapple_unavailable"
    ELSE ""

\* ChokeView._is_my_turn
choker_refusal(s, u) ==
    IF main_refusal(s, u) # "" THEN main_refusal(s, u)
    ELSE IF s.choking = NoPair \/ s.choking[1] # u THEN "only_the_choker"
    ELSE ""

\* ChokedVictimView._is_my_turn
victim_refusal(s, u) ==
    IF main_refusal(s, u) # "" THEN main_refusal(s, u)
    ELSE IF s.choking = NoPair \/ s.choking[2] # u THEN "only_the_choked"
    ELSE ""

Guarded(refusal, s, outs) == IF refusal # "" THEN Rejected(s, refusal) ELSE outs

(* DuelMainView *)
btn_advance(s, u) ==
    Guarded(main_refusal(s, u), s,
        finish_turn({ Out(push(micro_move(
                               resolve_pending_grenade(s, current(s)), u, steps),
                           "advances"),
                          Text("advance", steps, 0)) : steps \in 1..2 }))

btn_attack(s, u) ==
    Guarded(main_refusal(s, u), s,
        finish_turn(attack_once(resolve_pending_grenade(s, current(s)),
                                current(s))))

btn_grenade(s, u) ==
    LET thrower == current(s)
        target == other(s)
    IN Guarded(main_refusal(s, u), s,
        finish_turn(
            { Out(push(s, "fumbles"), Line("grenade_none")),
              Out(push(s, "grenade_misses"), Line("grenade_missed")) }
            \cup { Out(push([s EXCEPT !.grenades_pending[target] =
                                          <<thrower, dmg>>], "lobs"),
                       Text("grenade_lands", dmg, 0)) : dmg \in roll(30, 40) }))

btn_disengage(s, u) ==
    Guarded(main_refusal(s, u), s,
        finish_turn({ Out(push(micro_move(
                               resolve_pending_grenade(s, current(s)), u,
                               0 - steps),
                           "retreats"),
                          Text("disengage", steps, 0)) : steps \in 1..3 }))

\* _apply_and_log: the resolver is called for the current fighter's index
btn_block(s, u) ==
    Guarded(main_refusal(s, u), s,
        finish_turn({ Out(push(r.s, r.text.kind), r.text)
                      : r \in act_block(s, current(s)) }))

btn_dodge(s, u) ==
    Guarded(main_refusal(s, u), s,
        finish_turn({ Out(push(r.s, r.text.kind), r.text)
                      : r \in act_dodge(s, current(s)) }))

btn_take_cover(s, u) ==
    LET nxt == IF s.cover_level[u] = 0 THEN 1 ELSE 2
    IN Guarded(main_refusal(s, u), s,
        finish_turn({ Out(push([s EXCEPT !.cover_level[u] = nxt],
                               "takes_cover"),
                          Text("take_cover", nxt, 0)) }))

btn_leave_cover(s, u) ==
    Guarded(main_refusal(s, u), s,
        finish_turn({ Out(push([s EXCEPT !.cover_level[u] = 0],
                               "leaves_cover"),
                          Line("leave_cover")) }))

btn_grapple(s, u) ==
    Guarded(main_refusal(s, u), s,
        IF ~can_grapple(s) THEN Rejected(s, "cannot_grapple")
        ELSE { Applied(begin_grapple(s, u), Line("grapple")) })

\* DuelMainView.on_timeout
on_timeout(s) ==
    IF s.active THEN push([s EXCEPT !.active = FALSE], "timeout") ELSE s

(* GrappleView *)
grapple_btn_choke(s, u) ==
    LET me == current(s)
    IN Guarded(grapple_refusal(s, u), s,
        finish_turn({ Out(push([s EXCEPT !.choking = <<me, foe(me)>>],
                               "choke_secured"),
                          Line("choke_secured")),
                      Out(push(s, "choke_fails"), Line("choke_fails")) }))

grapple_btn_wrestle(s, u) ==
    Guarded(grapple_refusal(s, u), s,
        finish_turn({ Out(s1, Line("wrestle"))
                      : s1 \in wrestle(s, current(s), 10) }))

grapple_btn_punch(s, u) ==
    Guarded(grapple_refusal(s, u), s,
        finish_turn({ Out(push(apply_damage(s, other(s), dmg), "punches"),
                          Text("punch", dmg, 0)) : dmg \in roll(1, 5) }))

grapple_btn_breakfree(s, u) ==
    Guarded(grapple_refusal(s, u), s,
        finish_turn({ Out(s1, Line("break_free"))
                      : s1 \in break_free(s, current(s)) }))

(* ChokeView *)
choke_btn_squeeze(s, u) ==
    Guarded(choker_refusal(s, u), s,
        finish_turn({ Out(tighten(s, b, f), Line("squeeze"))
                      : b \in roll(8, 12), f \in roll(4, 8) }))

choke_btn_push(s, u) ==
    LET choker == s.choking[1]
        target == s.choking[2]
    IN Guarded(choker_refusal(s, u), s,
        finish_turn({ Out(push([s EXCEPT
                                   !.choking = NoPair,
                                   !.positioning[choker] = clamp(@ - 10, 0, 100),
                                   !.positioning[target] = clamp(@ + 10, 0, 100)],
                               "pushes_off"),
                          Line("push_off")) }))

(* ChokedVictimView *)
victim_btn_gouge(s, u) ==
    Guarded(victim_refusal(s, u), s,
        finish_turn({ Out(push(apply_damage([s EXCEPT !.choking = NoPair],
                                            other(s), dmg), "gouges"),
                          Text("gouge", dmg, 0)) : dmg \in roll(2, 5) }
                    \cup { Out(push(s, "gouge_fails"), Line("gouge_failed")) }))

victim_btn_wrestle(s, u) ==
    Guarded(victim_refusal(s, u), s,
        finish_turn({ Out(s1, Line("wrestle"))
                      : s1 \in wrestle(s, current(s), 8) }))

victim_btn_punch(s, u) ==
    Guarded(victim_refusal(s, u), s,
        finish_turn({ Out(push(apply_damage(s, other(s), dmg), "punches"),
                          Text("punch", dmg, 0)) : dmg \in roll(1, 4) }))

(* FinalizeView, built for the pair in ds.finisher *)
\* _is_victor without the test of who pressed
victor_refusal_anyone(s, u) == IF ~s.active THEN "ended" ELSE ""

victor_refusal(s, u) ==
    IF ~s.active THEN "ended"
    ELSE IF u # s.finisher[1] THEN "only_the_victor"
    ELSE ""

end_duel(s) == [s EXCEPT !.finisher = NoPair, !.active = FALSE]

btn_mercy(s, u) ==
    Guarded(victor_refusal(s, u), s,
        { Applied(end_duel(log_append(s, "mercy")), Line("mercy")) })

\* btn_beat that never ends the duel
btn_beat_no_end(s, u) ==
    Guarded(victor_refusal(s, u), s,
        { Applied(push(apply_damage(s, s.finisher[2], dmg), "beats"),
                  Text("beat", dmg, 0)) : dmg \in roll(1, 7) })

btn_beat(s, u) ==
    Guarded(victor_refusal(s, u), s,
        { LET s1 == push(apply_damage(s, s.finisher[2], dmg), "beats")
          IN Applied(IF s1.hp[s.finisher[2]] <= 0 THEN end_duel(s1) ELSE s1,
                     Text("beat", dmg, 0)) : dmg \in roll(1, 7) })

\* what the optional inventory hook does for a Kidnap: it stores the hostage,
\* it was never imported, or it raises
Inventory == {"added", "absent", "raises"}

\* btn_kidnap that lets the hook's exception end the handler
btn_kidnap_unguarded(s, u) ==
    Guarded(victor_refusal(s, u), s,
        { IF inv = "raises" THEN Applied(s, Line("kidnap"))
          ELSE Applied(end_duel(log_append(s, IF inv = "added"
                                              THEN "kidnaps_added"
                                              ELSE "kidnaps")),
                       Line("kidnap")) : inv \in Inventory })

btn_kidnap(s, u) ==
    Guarded(victor_refusal(s, u), s,
        { Applied(end_duel(log_append(s, IF inv = "added"
                                         THEN "kidnaps_added"
                                         ELSE "kidnaps")),
                  Line("kidnap")) : inv \in Inventory })

\* btn_souvenir that takes the choice and ends the duel like the others
btn_souvenir_taken(s, u) ==
    IF ~s.active THEN Rejected(s, "ended")
    ELSE { Applied(end_duel(log_append(s, "souvenir")), Line("souvenir")) }

btn_souvenir(s, u) == Rejected(s, "coming_soon")

(* ----------------------- the session, driven ------------------------ *)
Repeat(line, n) == [i \in 1..n |-> line]

\* a held choke: from a new session at Close fighter a grappled, secured the
\* choke and tightened it four times (10 breath, 6 bloodflow each) while b
\* failed to get free; it is a's turn in round 6
ChokeHeld(ai) ==
    LET s == NewSession(CLOSE, 0, ai)
        idle == IF ai THEN "struggles" ELSE "gouge_fails"
    IN [s EXCEPT !.grappling = TRUE,
                 !.choking = <<1, 2>>,
                 !.breath[2] = 10,
                 !.bloodflow[2] = 26,
                 !.stamina = [f \in F |-> 100],
                 !.round_no = 6,
                 !.log = @ \o <<"grapple", "choke_secured", idle,
                                "tightens", idle, "tightens", idle,
                                "tightens", idle, "tightens", idle>>]

\* a worn pair late in a long exchange at Mid: each fighter dodged once,
\* shot and missed often and was hit ten times, which left both at LowHP and
\* LowStamina; it is a's turn
Worn2(ai) ==
    LET s == NewSession(MID, 0, ai)
    IN [s EXCEPT !.hp = [f \in F |-> LowHP],
                 !.stamina = [f \in F |-> LowStamina],
                 !.round_no = 41,
                 !.log = @ \o Repeat("dodge", 2) \o Repeat("shot_missed", 58)
                           \o Repeat(IF ai THEN "ai_hits" ELSE "hits", 20)]

\* a finished choke: b came into the held choke already worn down to LowHP,
\* a squeezed once more (10 breath, 6 bloodflow), b passed out, the finisher
\* was armed for a and the turn was ended
Downed(ai) ==
    LET s == ChokeHeld(ai)
        hurt == [s EXCEPT !.hp[2] = LowHP,
                          !.log = SubSeq(@, 1, 6) \o Repeat("hits", 16)
                                  \o SubSeq(@, 7, Len(@))]
    IN end_and_update(end_turn(tighten(hurt, 10, 6)))

Init ==
    /\ \/ \E gate \in Gates, first \in {0, 1}, ai \in BOOLEAN :
            /\ ds = NewSession(gate, first, ai)
            /\ opening = (ai /\ first = 1)
       \/ \E ai \in BOOLEAN :
            /\ ds \in {ChokeHeld(ai), Worn2(ai), Downed(ai)}
            /\ opening = FALSE
    /\ reply = Line("start")
    /\ calls = 0
    /\ parked = 0
    /\ registered = TRUE

\* the users who can press a button: the two fighters and a bystander
Spectator == 3
Users == F \cup {Spectator}

\* who can press: the AI's user id (registry.py 92) belongs to no member
Pressers == IF ds.is_ai THEN Users \ {AI} ELSE Users

Press(outs) ==
    /\ calls < MaxPresses
    /\ \E r \in outs :
        /\ r.parked => parked < MaxParked
        /\ ds' = r.s
        /\ reply' = r.text
        /\ calls' = calls + 1
        /\ parked' = IF r.parked THEN parked + 1 ELSE parked
        /\ UNCHANGED <<registered, opening>>

PressAdvance == \E u \in Pressers : Press(btn_advance(ds, u))
PressAttack == \E u \in Pressers : Press(btn_attack(ds, u))
PressGrenade == \E u \in Pressers : Press(btn_grenade(ds, u))
PressDisengage == \E u \in Pressers : Press(btn_disengage(ds, u))
PressBlock == \E u \in Pressers : Press(btn_block(ds, u))
PressDodge == \E u \in Pressers : Press(btn_dodge(ds, u))
PressTakeCover == \E u \in Pressers : Press(btn_take_cover(ds, u))
PressLeaveCover == \E u \in Pressers : Press(btn_leave_cover(ds, u))
PressGrapple == \E u \in Pressers : Press(btn_grapple(ds, u))
PressGrappleChoke == \E u \in Pressers : Press(grapple_btn_choke(ds, u))
PressGrappleWrestle == \E u \in Pressers : Press(grapple_btn_wrestle(ds, u))
PressGrapplePunch == \E u \in Pressers : Press(grapple_btn_punch(ds, u))
PressBreakFree == \E u \in Pressers : Press(grapple_btn_breakfree(ds, u))
PressSqueeze == \E u \in Pressers : Press(choke_btn_squeeze(ds, u))
PressPushOff == \E u \in Pressers : Press(choke_btn_push(ds, u))
PressGouge == \E u \in Pressers : Press(victim_btn_gouge(ds, u))
PressVictimWrestle == \E u \in Pressers : Press(victim_btn_wrestle(ds, u))
PressVictimPunch == \E u \in Pressers : Press(victim_btn_punch(ds, u))

\* a FinalizeView exists once a finisher was offered
FinalizeShown == ds.finisher # NoPair
PressFinal(outs) ==
    \/ FinalizeShown /\ Press(outs)
    \/ ~FinalizeShown /\ ~ds.active /\ Press(Rejected(ds, "ended"))
PressMercy == \E u \in Pressers :
    PressFinal(IF FinalizeShown THEN btn_mercy(ds, u) ELSE {})
PressBeat == \E u \in Pressers :
    PressFinal(IF FinalizeShown THEN btn_beat(ds, u) ELSE {})
PressKidnap == \E u \in Pressers :
    PressFinal(IF FinalizeShown THEN btn_kidnap(ds, u) ELSE {})
PressSouvenir == \E u \in Pressers :
    (FinalizeShown \/ ~ds.active) /\ Press(btn_souvenir(ds, u))

\* a suspended handler goes on to end_and_update
Resume ==
    /\ parked > 0
    /\ ds' = end_and_update(ds)
    /\ parked' = parked - 1
    /\ UNCHANGED <<reply, calls, registered, opening>>

\* duel_ai: the AI's opening turn when it won the initiative
AiOpening ==
    /\ opening
    /\ \E a \in maybe_ai_take_turn(ds) : ds' = a.s
    /\ opening' = FALSE
    /\ UNCHANGED <<reply, calls, parked, registered>>

Timeout ==
    /\ ds.active
    /\ calls < MaxPresses
    /\ ds' = on_timeout(ds)
    /\ reply' = Line("timeout")
    /\ calls' = calls + 1
    /\ UNCHANGED <<parked, registered, opening>>

\* duel_reset
Reset ==
    /\ IF registered
       THEN /\ ds' = push(end_duel(ds), "reset")
            /\ reply' = Line("reset")
       ELSE /\ ds' = ds
            /\ reply' = Line("no_duel")
    /\ registered' = FALSE
    /\ calls < MaxPresses
    /\ calls' = calls + 1
    /\ UNCHANGED <<parked, opening>>

Next ==
    \/ PressAdvance \/ PressAttack \/ PressGrenade \/ PressDisengage
    \/ PressBlock \/ PressDodge \/ PressTakeCover \/ PressLeaveCover
    \/ PressGrapple
    \/ PressGrappleChoke \/ PressGrappleWrestle \/ PressGrapplePunch
    \/ PressBreakFree
    \/ PressSqueeze \/ PressPushOff
    \/ PressGouge \/ PressVictimWrestle \/ PressVictimPunch
    \/ PressMercy \/ PressBeat \/ PressKidnap \/ PressSouvenir
    \/ Resume \/ AiOpening \/ Timeout \/ Reset

Spec == Init /\ [][Next]_vars

(* ------------------- battlefield.py: the chances --------------------- *)
\* probabilities are held as integers, in units of 1/Scale
Scale == 10000
COVER_TO_HIT_MOD == [c \in COVER_NONE..COVER_FULL |-> (-2000) * c]
DODGE_BASE == 1200
DODGE_STAM_SCALER == 2500
DODGE_WEIGHT_SCALER == -1500
ToHitMin == 500
ToHitMax == 9500
DodgeMin == 200
DodgeMax == 5000

\* to_hit without the clamp
to_hit_unclamped(base, cover, stamina) ==
    base + COVER_TO_HIT_MOD[cover] + ((stamina - 50) * 8 * Scale) \div 10000

\* to_hit: stam_adj = (stamina - 50) / 100 * 0.08
to_hit(base, cover, stamina) ==
    clamp(base + COVER_TO_HIT_MOD[cover]
               + ((stamina - 50) * 8 * Scale) \div 10000,
          ToHitMin, ToHitMax)

\* dodge_chance: w_adj = weight / 30 * scaler, s_adj = (stamina - 50) / 50 * scaler
dodge_chance(s, f) ==
    clamp(DODGE_BASE + (s.weight[f] * DODGE_WEIGHT_SCALER) \div 30
                     + ((s.stamina[f] - 50) * DODGE_STAM_SCALER) \div 50,
          DodgeMin, DodgeMax)

\* the inputs the chances are computed for: every stamina the clamps allow,
\* light to very heavy gear, accuracies from below 0 to above 1
Weights == {0, DefaultWeight, SprintMaxWeight, HeavyWeight, 60, 300}
Accuracies == {-Scale, 0, 2500, 5500, 7500, Scale, 3 * Scale}

InitChances ==
    /\ \E st \in 0..100, w \in Weights, c \in COVER_NONE..COVER_FULL :
         ds = [NewSession(MID, 0, FALSE) EXCEPT !.stamina = [f \in F |-> st],
                                                !.weight[2] = w,
                                                !.cover[2] = c]
    /\ reply = Line("start")
    /\ calls = 0
    /\ parked = 0
    /\ registered = TRUE
    /\ opening = FALSE

\* the attacker's chance to hit fighter 2 with a weapon of the accuracy
ToHit ==
    /\ calls < MaxCalls
    /\ \E base \in Accuracies :
         reply' = Text("to_hit", to_hit(base, ds.cover[2], ds.stamina[1]), base)
    /\ calls' = calls + 1
    /\ UNCHANGED <<ds, parked, registered, opening>>

\* fighter 2's chance to dodge
DodgeChance ==
    /\ calls < MaxCalls
    /\ reply' = Text("dodge_chance", dodge_chance(ds, 2), 0)
    /\ calls' = calls + 1
    /\ UNCHANGED <<ds, parked, registered, opening>>

NextChances == ToHit \/ DodgeChance

SpecChances == InitChances /\ [][NextChances]_vars

(* ------------------- registry.py: starting a duel -------------------- *)
LOG_VISIBLE == 6
\* the combat and fitness stats load_player_stats can return, and the uniform
\* draws, in hundredths
Stats == {0, 5, 20}
Draws == {0, 9, 10, 11, 49, 50, 51, 89, 90, 91, 99}

\* _seed_combat_log: an empty log is filled up to one row short of the window
seed_combat_log(s) ==
    IF s.log = <<>> THEN [s EXCEPT !.log = Repeat("fill", LOG_VISIBLE - 1)] ELSE s

\* p_a of _decide_initiative, in hundredths
initiative_chance(ca, cb, fa, fb) == clamp(50 + 2 * (ca - cb) + (fa - fb), 10, 90)

\* _decide_initiative with the draw compared strictly
decide_initiative_strict(s, p_a, draw) ==
    log_append([s EXCEPT !.turn_id = IF draw < p_a THEN 0 ELSE 1], "initiative")

\* _decide_initiative: a starts when the draw is at most p_a; one line is logged
decide_initiative(s, p_a, draw) ==
    log_append([s EXCEPT !.turn_id = IF draw <= p_a THEN 0 ELSE 1], "initiative")

\* the channel before any duel: nothing registered
InitStart ==
    /\ ds = [NewSession(FAR, 0, FALSE) EXCEPT !.log = <<>>, !.active = FALSE]
    /\ reply = Line("none")
    /\ calls = 0
    /\ parked = 0
    /\ registered = FALSE
    /\ opening = FALSE

\* a start that does not look for a running duel
DuelStartUnchecked ==
    /\ calls < MaxCalls + 1
    /\ \E ai \in BOOLEAN, gate \in Gates, draw \in Draws,
          ca \in Stats, cb \in Stats, fa \in Stats, fb \in Stats :
         LET p_a == initiative_chance(ca, cb, fa, fb)
             blank == [NewSession(gate, 0, ai) EXCEPT !.log = <<>>]
             started == decide_initiative(seed_combat_log(blank), p_a, draw)
         IN /\ ds' = started
            /\ reply' = Text("initiative", p_a, draw)
            /\ registered' = TRUE
            /\ opening' = (ai /\ started.turn_id = 1)
    /\ calls' = calls + 1
    /\ UNCHANGED parked

\* duel_start / duel_ai: refused while the channel holds an active duel
DuelStart ==
    /\ calls < MaxCalls + 1
    /\ IF registered /\ ds.active
       THEN /\ reply' = Line("already_active")
            /\ UNCHANGED <<ds, registered, opening>>
       ELSE \E ai \in BOOLEAN, gate \in Gates, draw \in Draws,
               ca \in Stats, cb \in Stats, fa \in Stats, fb \in Stats :
              LET p_a == initiative_chance(ca, cb, fa, fb)
                  blank == [NewSession(gate, 0, ai) EXCEPT !.log = <<>>]
                  started == decide_initiative(seed_combat_log(blank), p_a, draw)
              IN /\ ds' = started
                 /\ reply' = Text("initiative", p_a, draw)
                 /\ registered' = TRUE
                 /\ opening' = (ai /\ started.turn_id = 1)
    /\ calls' = calls + 1
    /\ UNCHANGED parked

\* duel_reset
DuelReset ==
    /\ calls < MaxCalls + 1
    /\ IF registered
       THEN /\ ds' = push(end_duel(ds), "reset")
            /\ reply' = Line("reset")
       ELSE /\ ds' = ds
            /\ reply' = Line("no_duel")
    /\ registered' = FALSE
    /\ calls' = calls + 1
    /\ UNCHANGED <<parked, opening>>

NextStart == DuelStart \/ DuelReset

SpecStart == InitStart /\ [][NextStart]_vars

(* ------------------- a choke held to the end ------------------------- *)
\* the presses explored while a choke is held
MaxChokeTurns == 16

\* GrappleView.btn_choke has just secured a choke from a fresh clinch at
\* Close; in a duel against the AI the human moved first and the handler's
\* HUD update has returned
ChokeSecured ==
    { r.s : r \in { o \in UNION { grapple_btn_choke(
                                      begin_grapple(NewSession(CLOSE, first, ai),
                                                    first + 1),
                                      first + 1)
                                  : first \in 0..1, ai \in BOOLEAN }
                    : o.ok /\ o.text.kind = "choke_secured" } }

InitChoke ==
    /\ ds \in ChokeSecured
    /\ reply = Line("choke_secured")
    /\ calls = 0
    /\ parked = 0
    /\ registered = TRUE
    /\ opening = FALSE

\* a press of the fighter to act that is applied and leaves the choke held,
\* while the victim is still conscious
ChokeTurn(outs) ==
    /\ calls < MaxChokeTurns
    /\ parked = 0
    /\ ds.active
    /\ ds.unconscious = {}
    /\ \E r \in outs :
        /\ r.ok
        /\ r.s.choking # NoPair
        /\ ds' = r.s
        /\ reply' = r.text
        /\ calls' = calls + 1
        /\ parked' = IF r.parked THEN 1 ELSE 0
        /\ UNCHANGED <<registered, opening>>

Squeeze == ChokeTurn(choke_btn_squeeze(ds, current(ds)))
VictimGouge == ChokeTurn(victim_btn_gouge(ds, current(ds)))
VictimPunch == ChokeTurn(victim_btn_punch(ds, current(ds)))

ChokeResume ==
    /\ parked > 0
    /\ ds' = end_and_update(ds)
    /\ parked' = 0
    /\ UNCHANGED <<reply, calls, registered, opening>>

NextChoke == Squeeze \/ VictimGouge \/ VictimPunch \/ ChokeResume

SpecChoke == InitChoke /\ [][NextChoke]_vars

(* ------------------------------ claims ------------------------------- *)
RejectKinds == { "reject_punch_range", "reject_out_of_range",
                 "reject_grapple_range", "reject_choke", "reject_push",
                 "reject_gouge" }

\* C1: an action whose precondition is violated returns a rejection and
\* leaves the whole session (HP, stamina, flags, links, range, log, round,
\* turn index) as it was.
C1_RejectionChangesNothing ==
    [][(calls' = calls + 1 /\ reply'.kind \in RejectKinds) => ds' = ds]_vars

\* the phase of a session
InPhase(s) == s.grappling \/ s.choking # NoPair \/ s.finisher # NoPair

\* the replies of the main view's buttons when they are applied
MainViewKinds ==
    { "advance", "disengage", "grenade_none", "grenade_missed",
      "grenade_lands", "block", "dodge", "take_cover", "leave_cover",
      "grapple", "punches", "punches_blocked", "punch_dodged", "hits",
      "hits_blocked", "shot_dodged", "shot_missed" } \cup RejectKinds

\* C2: while the session is grappling, choking or in the finisher phase no
\* button of the main view is applied, whoever presses it; Choke and Push are
\* applied only for the choker on their turn and Gouge only for the choked.
C2_PhaseActorChecked ==
    [][calls' = calls + 1 =>
         /\ (InPhase(ds) /\ reply'.kind \in MainViewKinds) => ds' = ds
         /\ reply'.kind \in {"squeeze", "push_off"} =>
                ds.choking # NoPair /\ ds.choking[1] = current(ds)
         /\ reply'.kind \in {"gouge", "gouge_failed"} =>
                ds.choking # NoPair /\ ds.choking[2] = current(ds)]_vars

\* the turn a press is made against
Stamp(s) == <<s.round_no, s.turn_id>>

\* C3: a press that is applied uses up the turn it was made against, so that
\* a second press by the same fighter for that turn finds the turn gone and is
\* refused: while the duel goes on, no applied press of a turn-gated view
\* leaves the round and the turn index as they were.
C3_AppliedPressUsesTurn ==
    [][(/\ calls' = calls + 1
        /\ ds.active /\ ds'.active
        /\ ds.finisher = NoPair
        /\ ds' # ds) => Stamp(ds') # Stamp(ds)]_vars

\* C4: in an active session a finisher is never set while a choke is set or
\* the fighters grapple, and a choke is never set while grappling is false:
\* the four phases exclude each other.
C4_PhasesExclusive ==
    ds.active =>
        /\ ds.finisher # NoPair => ds.choking = NoPair /\ ~ds.grappling
        /\ ds.choking # NoPair => ds.grappling

\* C5: the choke links are a matched pair or both null: fighter x has
\* choking_target = y exactly when fighter y has is_choked_by = x.
C5_LinksMatched ==
    \A x \in F, y \in F :
        (ds.choking_target[x] = y) <=> (ds.is_choked_by[y] = x)

\* C6: a finisher (victor, target) is set only while the session is active
\* and the target is unconscious.
C6_FinisherOnlyWhileActive ==
    ds.finisher # NoPair =>
        ds.active /\ ds.finisher[2] \in ds.unconscious

\* C7: while the session is active the turn index points at a fighter with
\* hp > 0 who is not unconscious.
C7_TurnHolderStands ==
    ds.active => ~down(ds, current(ds))

C9_RangeInGates == ds.current_range \in Gates

\* a sprint retreat from Far, which would pass Out, has stopped at Out
C9_SprintStopsAtOut ==
    /\ calls = 1
    /\ reply = Text("retreats", FAR, OUT)
    /\ \E f \in F : ds.stamina[f] = STAMINA_BASE - 10

\* C10: advancing at Close leaves the gate at Close and retreating at Out
\* leaves it at Out.
C10_BoundMovesStay ==
    /\ (reply.kind = "advances" /\ reply.n = CLOSE) => ds.current_range = CLOSE
    /\ (reply.kind = "retreats" /\ reply.n = OUT) => ds.current_range = OUT

\* a sprint was made towards the foe at Close, or away from the foe at Out
C10_MovedAtBound ==
    \/ /\ reply = Text("advances", CLOSE, CLOSE)
       /\ \E f \in F : ds.stamina[f] = STAMINA_BASE - 10
    \/ /\ reply = Text("retreats", OUT, OUT)
       /\ \E f \in F : ds.stamina[f] = STAMINA_BASE - 10

\* C11: a grenade pending on fighter T detonates at the start of T's next
\* turn whatever T does with it: once T's turn is used up the pending map has
\* no entry for T.
C11_PendingDetonatesOnTurn ==
    [][(/\ calls' = calls + 1
        /\ ds.active
        /\ ds.grenades_pending[current(ds)] # NoPair
        /\ Stamp(ds') # Stamp(ds))
       => ds'.grenades_pending[current(ds)] = NoPair]_vars

Holds(s, idx) == s.is_choked_by[foe(idx)] = idx \/ s.choking_target[idx] = foe(idx)

\* C13: a choke is applied only by an attacker who holds the defender or who
\* stands at Close; an attacker with neither is always rejected, and a
\* rejected choke changes nothing in the session (stamina, links, HP, flags).
C13_ChokeNeedsHold ==
    [][calls' = calls + 1 =>
         /\ \A idx \in F : (~Holds(ds, idx) /\ ds.current_range # CLOSE) =>
                act_choke(ds, idx) = { Out(ds, Line("reject_choke")) }
         /\ reply'.kind = "reject_choke" => ds' = ds
         /\ reply'.kind = "chokes" =>
                \E idx \in F : /\ Out(ds', reply') \in act_choke(ds, idx)
                               /\ Holds(ds, idx) \/ ds.current_range = CLOSE
                               /\ ds'.choking_target[idx] = foe(idx)
                               /\ ds'.is_choked_by[foe(idx)] = idx]_vars

\* a choke was rejected away from Close with nobody holding anybody
C13_RejectedAtDistance ==
    /\ reply.kind = "reject_choke"
    /\ ds.current_range # CLOSE
    /\ \A idx \in F : ~Holds(ds, idx)

\* C14: a gouge is accepted only from a fighter whom the opponent is
\* choking (the opponent's choking_target names the fighter); anybody else is
\* rejected, and a rejected or failed gouge leaves the session as it was.
C14_GougeOnlyWhenChoked ==
    [][calls' = calls + 1 =>
         /\ reply'.kind = "gouges" =>
                \E idx \in F : /\ Out(ds', reply') \in act_gouge(ds, idx)
                               /\ ds.choking_target[foe(idx)] = idx
         /\ reply'.kind \in {"reject_gouge", "gouge_fails"} => ds' = ds]_vars

\* C15: pressing Throw Grenade with no grenade in the kit changes nothing in
\* the session: no stamina spent, no pending grenade, no log line, and the
\* turn stays with the thrower.
C15_NoGrenadeChangesNothing ==
    [][(calls' = calls + 1 /\ reply'.kind = "grenade_none") => ds' = ds]_vars

\* C16: whenever a duel ends by a victory, a draw or a terminal finisher
\* choice, the step that ends it also removes the session from the channel
\* registry.
C16_EndedLeavesRegistry ==
    [][(ds.active /\ ~ds'.active /\ reply'.kind # "timeout") =>
           ~registered']_vars

\* C17: the step that times out an active session deactivates it, logs the
\* timeout and removes the session from the channel registry.
C17_TimeoutLeavesRegistry ==
    [][(ds.active /\ calls' = calls + 1 /\ reply'.kind = "timeout") =>
           /\ ~ds'.active
           /\ last_line(ds') = "timeout"
           /\ ~registered']_vars

\* the fields an ended duel keeps: vitals, range, turn and phase
Frozen(s, t) ==
    /\ t.hp = s.hp
    /\ t.stamina = s.stamina
    /\ t.current_range = s.current_range
    /\ t.turn_id = s.turn_id
    /\ t.round_no = s.round_no
    /\ t.grappling = s.grappling
    /\ t.choking = s.choking
    /\ t.finisher = s.finisher
    /\ t.unconscious = s.unconscious

\* a button press or finisher choice was handled, or the AI was invoked for
\* its opening turn
LaterInput ==
    \/ calls' = calls + 1 /\ reply'.kind \notin {"reset", "no_duel", "timeout"}
    \/ opening /\ ~opening'

\* C18: an ended session never becomes active again; a button press, a
\* finisher choice or an AI invocation that comes after the end changes no
\* HP, stamina, range, turn or phase field; a reset leaves the session ended
\* and out of the registry.
C18_EndIsTerminal ==
    [][/\ ~ds.active => ~ds'.active
       /\ (~ds.active /\ LaterInput) => Frozen(ds, ds')
       /\ (calls' = calls + 1 /\ reply'.kind \in {"reset", "no_duel"}) =>
              ~registered' /\ ~ds'.active]_vars

\* a press arrived after the duel had ended with a knocked-down fighter
C18_PressAfterEnd ==
    /\ ~ds.active
    /\ reply.kind = "ended"
    /\ \E f \in F : ds.hp[f] = 0

\* the log holds the line
Logged(s, line) == \E i \in DOMAIN s.log : s.log[i] = line

\* C19: once an exchange has left both fighters at HP 0 and its end-of-action
\* check has run, the duel is over as a draw: the draw line is logged, no win
\* is logged, no finisher is armed and active is false. (A finisher's Beat is
\* not an exchange: btn_beat ends the duel itself and runs no such check.)
C19_BothDownIsDraw ==
    (ds.hp[1] = 0 /\ ds.hp[2] = 0 /\ parked = 0 /\ ~Logged(ds, "beats")) =>
        /\ ~ds.active
        /\ Logged(ds, "draw")
        /\ ~Logged(ds, "wins")
        /\ ds.finisher = NoPair

\* both fighters fell in one exchange and the draw was reported
C19_DrawReported ==
    /\ ds.hp[1] = 0 /\ ds.hp[2] = 0
    /\ parked = 0
    /\ last_line(ds) = "draw"
    /\ ~ds.active

\* how many times the finisher prompt stands in the log
Prompts(s) == Cardinality({ i \in DOMAIN s.log : s.log[i] = Prompt })

\* C20: once an action has been resolved with a fighter unconscious in an
\* active session, the finisher is armed for the victor against that fighter,
\* and the finisher prompt stands in the log at most once, whatever was
\* logged in between.
C20_ArmedAndPromptedOnce ==
    /\ (ds.active /\ parked = 0 /\ calls > 0 /\ ds.unconscious # {}) =>
           /\ ds.finisher # NoPair
           /\ ds.finisher[2] \in ds.unconscious
           /\ ds.finisher[1] = foe(ds.finisher[2])
    /\ Prompts(ds) <= 1

\* how many times the line stands in the log
Count(s, line) == Cardinality({ i \in DOMAIN s.log : s.log[i] = line })

\* C21: a Beat takes 1 to 7 HP from the finisher's target, never below 0, and
\* nothing from the victor; the duel stays active with the same finisher
\* while the target has HP left, and ends (finisher cleared, active false)
\* when the target is at 0. The target's HP, at most FullHP, strictly falls
\* with every Beat until it is 0, so no more than FullHP Beats end the duel.
C21_BeatWearsDown ==
    [][(calls' = calls + 1 /\ reply'.kind = "beat") =>
         LET v == ds.finisher[1]
             t == ds.finisher[2]
             dmg == reply'.n
         IN /\ dmg \in 1..7
            /\ ds.hp[t] <= FullHP
            /\ ds'.hp[t] = IF ds.hp[t] > dmg THEN ds.hp[t] - dmg ELSE 0
            /\ ds'.hp[v] = ds.hp[v]
            /\ ds'.hp[t] < ds.hp[t] \/ ds.hp[t] = 0
            /\ IF ds'.hp[t] = 0
               THEN ds'.finisher = NoPair /\ ~ds'.active
               ELSE ds'.finisher = ds.finisher /\ ds'.active]_vars

\* a second Beat took the target's last HP and ended the duel
C21_SecondBeatEnded ==
    /\ reply.kind = "beat"
    /\ Count(ds, "beats") = 2
    /\ \E f \in F : ds.hp[f] = 0
    /\ ~ds.active

\* C22: a Mercy or a Kidnap by the victor ends the duel in that one step:
\* the finisher is cleared, active is false and both fighters keep their HP;
\* a Kidnap does so whether the inventory hook stored the hostage, is absent
\* or raised.
C22_MercyKidnapEnd ==
    [][(calls' = calls + 1 /\ reply'.kind \in {"mercy", "kidnap"}) =>
         /\ ds.active /\ ds.finisher # NoPair
         /\ ds'.finisher = NoPair
         /\ ~ds'.active
         /\ ds'.hp = ds.hp
         /\ ds'.log \in { Append(ds.log, l) :
                             l \in {"mercy", "kidnaps", "kidnaps_added"} }]_vars

\* a Kidnap ended the duel although nothing was added to the inventory
C22_KidnapWithoutInventory ==
    /\ reply.kind = "kidnap"
    /\ last_line(ds) = "kidnaps"
    /\ ~ds.active
    /\ ds.finisher = NoPair

\* C23: whoever presses Souvenir, and whenever, the only answer is the
\* not-available reply, and the press changes nothing: the session (finisher,
\* active, HP, log and all the rest) and the registry stay as they were.
C23_SouvenirChangesNothing ==
    [][/\ \A u \in Users : \A r \in btn_souvenir(ds, u) :
              r.text.kind = "coming_soon" /\ r.s = ds
       /\ (calls' = calls + 1 /\ reply'.kind = "coming_soon") =>
              ds' = ds /\ registered' = registered /\ parked' = parked]_vars

\* Souvenir was pressed while the finisher was armed and the duel went on
C23_SouvenirPressed ==
    /\ reply.kind = "coming_soon"
    /\ ds.active
    /\ ds.finisher # NoPair
    /\ registered

\* the finisher buttons that act on the duel
FinisherChoices(s, u) == btn_mercy(s, u) \cup btn_beat(s, u) \cup btn_kidnap(s, u)

\* C24: while a finisher is offered, Mercy, Beat and Kidnap pressed by
\* anybody but the victor of the finisher tuple are rejected and change
\* nothing; a finisher press on an ended session is rejected and changes
\* nothing; so a Mercy, Beat or Kidnap is only ever applied in an active
\* session with the finisher armed.
C24_OnlyVictorChooses ==
    [][/\ FinalizeShown =>
              \A u \in Users : (u # ds.finisher[1] \/ ~ds.active) =>
                  \A r \in FinisherChoices(ds, u) :
                      /\ r.s = ds /\ ~r.ok /\ ~r.parked
                      /\ r.text.kind = IF ~ds.active THEN "ended"
                                       ELSE "only_the_victor"
       /\ calls' = calls + 1 =>
              /\ reply'.kind \in {"mercy", "beat", "kidnap"} =>
                     ds.active /\ ds.finisher # NoPair
              /\ reply'.kind \in {"only_the_victor", "ended"} =>
                     ds' = ds /\ registered' = registered]_vars

\* somebody who is not the victor pressed a finisher button and was refused
C24_StrangerRefused ==
    /\ reply.kind = "only_the_victor"
    /\ ds.active
    /\ ds.finisher # NoPair

\* C25: whatever the accuracy, the cover and the stamina, to_hit lies between
\* 0.05 and 0.95; whatever the stamina and the weight, dodge_chance lies
\* between 0.02 and 0.50.
C25_ChancesInRange ==
    /\ reply.kind = "to_hit" => reply.n \in (5 * Scale) \div 100 .. (95 * Scale) \div 100
    /\ reply.kind = "dodge_chance" =>
           reply.n \in (2 * Scale) \div 100 .. (50 * Scale) \div 100

\* an accuracy above 0.95 met no cover and was cut down to 0.95
C25_ToHitCapped ==
    /\ reply.kind = "to_hit"
    /\ reply.m > ToHitMax
    /\ ds.cover[2] = COVER_NONE
    /\ reply.n = ToHitMax

\* C26: the chance of fighter a to start is 0.5 + 0.02 * (combat a - combat
\* b) + 0.01 * (fitness a - fitness b), kept within 0.10 and 0.90; a holds
\* the first turn exactly when the draw is at most that chance, b otherwise;
\* the started session has one initiative line, as its last log row.
C26_InitiativeDecided ==
    [][(calls' = calls + 1 /\ reply'.kind = "initiative") =>
            /\ \A ca \in Stats, cb \in Stats, fa \in Stats, fb \in Stats :
                 LET raw == 50 + 2 * (ca - cb) + (fa - fb)
                 IN initiative_chance(ca, cb, fa, fb) =
                       IF raw < 10 THEN 10 ELSE IF raw > 90 THEN 90 ELSE raw
            /\ reply'.n \in 10..90
            /\ (ds'.turn_id = 0) = (reply'.m <= reply'.n)
            /\ (ds'.turn_id = 1) = (reply'.m > reply'.n)
            /\ Count(ds', "initiative") = 1
            /\ last_line(ds') = "initiative"
            /\ ds' = NewSession(ds'.current_range, ds'.turn_id, ds'.is_ai)]_vars

\* a draw equal to the chance gave fighter a the first turn of a second duel
\* in the channel
C26_DrawAtChance ==
    /\ reply.kind = "initiative"
    /\ reply.m = reply.n
    /\ ds.turn_id = 0
    /\ calls = 3

\* C27: in a duel of two humans, a press that was accepted and acted on the
\* duel ends with one end-of-turn step: the fighter who acted has regained
\* STAMINA_REGEN_PER_TURN stamina (at most 100 in all), the turn is with the
\* other fighter, and the round went up by one exactly when the turn went
\* from b back to a.
C27_OneEndOfTurn ==
    [][(/\ calls' = calls + 1
        /\ ~ds.is_ai /\ ds.active /\ ds.finisher = NoPair
        /\ reply'.kind \notin {"timeout", "reset"}
        /\ ds' # ds) =>
           LET me == current(ds)
           IN /\ ds'.turn_id = 1 - ds.turn_id
              /\ ds'.round_no = ds.round_no + (IF ds.turn_id = 1 THEN 1 ELSE 0)
              /\ ds'.stamina[me] >= STAMINA_REGEN_PER_TURN
              /\ ds'.stamina[me] <= clamp(ds.stamina[me] + STAMINA_REGEN_PER_TURN,
                                          0, 100)]_vars

\* v less d, never below 0
Less(v, d) == IF v > d THEN v - d ELSE 0

\* C28: a shot fired at any gate but Out costs the attacker 7 stamina (never
\* below 0) and the defender none, whether it is dodged, misses or hits; a
\* dodged or missed shot leaves both fighters' HP as it was.
C28_ShotCostsSeven ==
    [][(calls' = calls + 1 /\ reply'.kind \in {"shot_dodged", "shot_missed",
                                               "hits", "hits_blocked"}) =>
         /\ ds.current_range # OUT
         /\ \E idx \in F :
               /\ ds'.stamina[idx] = Less(ds.stamina[idx], 7)
               /\ ds'.stamina[foe(idx)] = ds.stamina[foe(idx)]
               /\ ds'.hp[idx] = ds.hp[idx]
               /\ reply'.kind \in {"shot_dodged", "shot_missed"} =>
                      ds'.hp = ds.hp]_vars

\* a fresh fighter shot at Mid and missed: stamina 78, nobody hurt
C28_MissAtMid ==
    /\ reply.kind = "shot_missed"
    /\ calls = 1
    /\ ds.current_range = MID
    /\ \E idx \in F : ds.stamina[idx] = STAMINA_BASE - 7
    /\ ds.hp = [f \in F |-> FullHP]

\* C29: a punch at Close that is not dodged takes a roll of 5 to 9 from the
\* defender's HP (never below 0) when the defender is not blocking, and half
\* such a roll, rounded down, when the defender is blocking, which uses up
\* the block; it costs the attacker 5 stamina. A dodged punch leaves HP as
\* it was and uses up the dodge.
C29_PunchDamage ==
    [][calls' = calls + 1 =>
         /\ reply'.kind = "punches" =>
               \E idx \in F :
                 /\ ds.current_range = CLOSE
                 /\ ~ds.status_block[foe(idx)]
                 /\ reply'.n \in 5..9
                 /\ ds'.hp[foe(idx)] = Less(ds.hp[foe(idx)], reply'.n)
                 /\ ds'.hp[idx] = ds.hp[idx]
                 /\ ds'.stamina[idx] = Less(ds.stamina[idx], 5)
         /\ reply'.kind = "punches_blocked" =>
               \E idx \in F :
                 /\ ds.current_range = CLOSE
                 /\ ds.status_block[foe(idx)]
                 /\ reply'.n \in { d \div 2 : d \in 5..9 }
                 /\ ds'.hp[foe(idx)] = Less(ds.hp[foe(idx)], reply'.n)
                 /\ ds'.hp[idx] = ds.hp[idx]
                 /\ ~ds'.status_block[foe(idx)]
                 /\ ds'.stamina[idx] = Less(ds.stamina[idx], 5)
         /\ reply'.kind = "punch_dodged" =>
               \E idx \in F :
                 /\ ds.current_range = CLOSE
                 /\ ds.status_dodge[foe(idx)]
                 /\ ds'.hp = ds.hp
                 /\ ~ds'.status_dodge[foe(idx)]]_vars

\* a punch landed on a raised block for half a roll
C29_PunchOnBlock ==
    /\ reply.kind = "punches_blocked"
    /\ reply.n = 4
    /\ \E f \in F : ds.hp[f] = FullHP - 4
    /\ ds.status_block = [f \in F |-> FALSE]

\* C30: in a duel of two humans, a Push by the choker breaks the choke and
\* opens the range by one gate, staying at Out when already there; nobody's
\* HP changes.
C30_PushOpensRange ==
    [][(calls' = calls + 1 /\ ~ds.is_ai /\ reply'.kind = "push_off") =>
         /\ ds.choking # NoPair
         /\ ds'.choking = NoPair
         /\ ds'.hp = ds.hp
         /\ ds'.current_range = IF ds.current_range < OUT
                                THEN ds.current_range + 1 ELSE OUT]_vars

\* the lines a press and the AI's follow-up add to the log, the detonation
\* and finisher prompt lines left out
ActionLines(s, t) ==
    Cardinality({ i \in DOMAIN t.log :
                    i > Len(s.log) /\ t.log[i] \notin {"detonates", Prompt} })

\* C31: an invocation of the AI while the session is inactive or the current
\* fighter is not the AI changes nothing. A human's turn-consuming press in an
\* AI duel with no finisher pending is followed by exactly one AI turn: the
\* AI's pending grenade is resolved, one AI action is logged after the
\* human's, and one end of turn hands the turn back to the human in the next
\* round. The AI's opening move, when the turn is still the AI's, likewise is
\* one action and one end of turn.
C31_AiTakesOneTurn ==
    [][/\ (~ds.active \/ ~(ds.is_ai /\ current(ds) = AI)) =>
              maybe_ai_take_turn(ds) = { [s |-> ds, parked |-> FALSE] }
       /\ ( /\ calls' = calls + 1
            /\ parked' = parked + 1
            /\ ds.finisher = NoPair
            /\ (ds'.finisher = NoPair \/ ds'.finisher[1] = AI) ) =>
              /\ current(ds) = foe(AI)
              /\ current(ds') = foe(AI)
              /\ ds'.round_no = ds.round_no + 1
              /\ ds'.grenades_pending[AI] = NoPair
              /\ ActionLines(ds, ds') = 2
       /\ (opening /\ ~opening' /\ ds.active /\ current(ds) = AI) =>
              /\ current(ds') = foe(AI)
              /\ ds'.round_no = ds.round_no + 1
              /\ ActionLines(ds, ds') = 1]_vars

\* the human's grenade was pending on the AI when the AI's turn came: it has
\* gone off and the turn is back with the human
C31_AiResolvedGrenade ==
    /\ ds.is_ai /\ ds.active /\ parked = 1
    /\ reply.kind = "grenade_lands"
    /\ Logged(ds, "detonates")
    /\ ds.grenades_pending[AI] = NoPair
    /\ current(ds) = foe(AI)

\* C32: while a choke is held and tightened turn after turn, every tighten
\* takes at least 8 breath from the victim's 50, so no more than 7 tightens
\* happen before breath or bloodflow is 0; exactly then the victim is
\* unconscious, and once the handler has finished the finisher is armed with
\* the choker as victor and the victim as target in a still active session.
C32_ChokeEndsInSeven ==
    LET c == ds.choking[1]
        v == ds.choking[2]
        n == Count(ds, "tightens")
    IN /\ ds.choking # NoPair
       /\ n <= 7
       /\ ds.breath[v] <= 50 - 8 * n \/ ds.breath[v] = 0
       /\ (ds.breath[v] = 0 \/ ds.bloodflow[v] = 0) <=> v \in ds.unconscious
       /\ n = 7 => v \in ds.unconscious
       /\ v \in ds.unconscious =>
              /\ ds.active
              /\ ds.finisher = <<c, v>>
              /\ Logged(ds, Prompt)

\* the seventh tighten was needed: it put the victim out
C32_SeventhTighten ==
    /\ Count(ds, "tightens") = 7
    /\ ds.choking # NoPair
    /\ ds.choking[2] \in ds.unconscious
    /\ ds.finisher = ds.choking
    /\ parked = 0

\* the lines of t's log that s's log does not have yet
NewLines(s, t) == { t.log[i] : i \in (Len(s.log) + 1)..Len(t.log) }

C34_StartRefusedWhileActive ==
    [][/\ ( /\ registered /\ ds.active
            /\ calls' = calls + 1
            /\ reply'.kind # "reset" ) =>
              /\ reply'.kind = "already_active"
              /\ ds' = ds
              /\ registered'
              /\ opening' = opening
       /\ (calls' = calls + 1 /\ reply'.kind = "initiative") =>
              /\ ~(registered /\ ds.active)
              /\ registered'
              /\ ds'.active]_vars

\* a second start arrived while the first duel was running and was refused
C34_SecondStartRefused ==
    /\ reply.kind = "already_active"
    /\ calls = 2
    /\ registered
    /\ ds.active
    /\ Len(ds.log) = LOG_VISIBLE

\* the lines the AI's ranged phase logs
AiLines ==
    { "ai_advances", "ai_hits", "ai_misses", "ai_swing_hits",
      "ai_swing_misses" }

\* C35: once a human's action has brought the AI's HP to 0, the AI does not
\* act in the follow-up of the same handler: no AI line is logged and the
\* human's HP is as it was before the press.
C35_DeadAiStaysStill ==
    [][( /\ ds.is_ai
         /\ calls' = calls + 1
         /\ ds.hp[AI] > 0
         /\ ds'.hp[AI] = 0 ) =>
           /\ NewLines(ds, ds') \cap AiLines = {}
           /\ ds'.hp[foe(AI)] = ds.hp[foe(AI)]]_vars

\* C36: when the grenade pending on the fighter to act goes off at the start
\* of their press and takes their last HP, the action they pressed is not
\* resolved: the opponent's HP and the lane positions stay as they were.
C36_DownedByGrenadeHolds ==
    [][LET u == current(ds)
       IN ( /\ calls' = calls + 1
            /\ ds.active
            /\ ds.grenades_pending[u] # NoPair
            /\ ds.grenades_pending[u][2] >= ds.hp[u]
            /\ "detonates" \in NewLines(ds, ds') ) =>
              /\ ds'.hp[foe(u)] = ds.hp[foe(u)]
              /\ ds'.pos = ds.pos]_vars

\* every grenade that landed has gone off or is still pending
LandedAccounted(s) ==
    Count(s, "lobs") = Count(s, "detonates")
                       + Cardinality({ f \in F : s.grenades_pending[f] # NoPair })

\* C37: no landed grenade is lost: in every state, and after any throw made
\* from it, the grenades that landed are those that went off plus those still
\* pending, also when the throw lands on a target that has one pending.
C37_EveryGrenadeGoesOff ==
    /\ LandedAccounted(ds)
    /\ \A u \in F : \A r \in btn_grenade(ds, u) : LandedAccounted(r.s)

\* the log lines that report how a session ended
TerminalLines ==
    { "wins", "draw", "mercy", "kidnaps", "kidnaps_added", "timeout", "reset" }

\* C38: a session reports at most one terminal outcome, in whatever order the
\* timeout, a reset and the resumption of a suspended handler run.
C38_OneTerminalOutcome ==
    Cardinality({ i \in DOMAIN ds.log : ds.log[i] \in TerminalLines }) <= 1

\* C39: whenever a fighter holds the other in a grapple or choke the range
\* gate is Close, and a choke that was applied was applied at Close.
C39_HoldOnlyAtClose ==
    /\ (\E idx \in F : Holds(ds, idx)) => ds.current_range = CLOSE
    /\ reply.kind = "chokes" => ds.current_range = CLOSE

\* C40: no fighter ever has the block flag and the dodge flag set together:
\* a Block leaves its fighter blocking and not dodging, a Dodge leaves its
\* fighter dodging and not blocking, and whenever a call takes a flag from a
\* fighter it leaves that fighter with neither.
C40_BlockXorDodge ==
    [][calls' = calls + 1 =>
         /\ \A f \in F : ~(ds'.status_block[f] /\ ds'.status_dodge[f])
         /\ reply'.kind = "block" =>
                \E idx \in F : /\ Out(ds', reply') \in act_block(ds, idx)
                               /\ ds'.status_block[idx]
                               /\ ~ds'.status_dodge[idx]
         /\ reply'.kind = "dodge" =>
                \E idx \in F : /\ Out(ds', reply') \in act_dodge(ds, idx)
                               /\ ds'.status_dodge[idx]
                               /\ ~ds'.status_block[idx]
         /\ \A f \in F :
                ( \/ ds.status_block[f] /\ ~ds'.status_block[f]
                  \/ ds.status_dodge[f] /\ ~ds'.status_dodge[f] ) =>
                    \/ reply'.kind \in {"block", "dodge"}
                    \/ ~ds'.status_block[f] /\ ~ds'.status_dodge[f]]_vars

\* a fresh fighter who was blocking has gone over to dodging: the 4 of the
\* block and the 6 of the dodge are spent and only the dodge flag is set
C40_DodgeAfterBlock ==
    /\ reply.kind = "dodge"
    /\ calls = 2
    /\ \E f \in F : /\ ds.status_dodge[f]
                    /\ ~ds.status_block[f]
                    /\ ds.stamina[f] = STAMINA_BASE - 4 - 6

====
